---- MODULE Spec2Model ----
(***************************************************************************)
(* Model of app/api/orders/[id]/route.ts: the GET and PUT handlers of the  *)
(* order resource, run by two overlapping requests against one database.   *)
(* Every await of executeQuery is one step: the statement takes effect (or *)
(* throws) atomically, and statements of different requests interleave.    *)
(***************************************************************************)
EXTENDS Integers, Sequences, FiniteSets, Bags, TLC

\* ------------------------------------------------------------------ bounds
MaxItems == 1
MaxLinks == 1
MaxReqs == 2

\* The requests in flight at once: a slot runs one request at a time.
Slots == {1, 2}

\* ------------------------------------------------------- nullable values
\* A nullable column or a NaN-able number is <<>> (null / NaN) or <<v>>.
Null == <<>>
Some(v) == <<v>>
NaN == <<>>

\* ------------------------------------------------------------- parseInt
WhiteSpace == {" "}
DigitChars == {"0", "1", "2", "3", "4", "5", "6", "7", "8", "9"}

DigitVal(c) ==
    CASE c = "0" -> 0 [] c = "1" -> 1 [] c = "2" -> 2 [] c = "3" -> 3
      [] c = "4" -> 4 [] c = "5" -> 5 [] c = "6" -> 6 [] c = "7" -> 7
      [] c = "8" -> 8 [] c = "9" -> 9

RECURSIVE TrimStart(_)
TrimStart(s) ==
    IF Len(s) > 0 /\ s[1] \in WhiteSpace THEN TrimStart(Tail(s)) ELSE s

RECURSIVE DigitPrefixLen(_)
DigitPrefixLen(s) ==
    IF Len(s) > 0 /\ s[1] \in DigitChars THEN 1 + DigitPrefixLen(Tail(s)) ELSE 0

RECURSIVE DigitsValue(_, _)
DigitsValue(s, acc) ==
    IF Len(s) = 0 THEN acc ELSE DigitsValue(Tail(s), 10 * acc + DigitVal(s[1]))

\* Faulty variant of ParseInt: a default of 0 where parseInt gives NaN (parseInt(x) || 0).
ParseIntOrZero(str) ==
    LET t == TrimStart(str)
        signed == Len(t) > 0 /\ t[1] \in {"+", "-"}
        sign == IF Len(t) > 0 /\ t[1] = "-" THEN -1 ELSE 1
        u == IF signed THEN Tail(t) ELSE t
        n == DigitPrefixLen(u)
    IN  IF n = 0 THEN Some(0) ELSE Some(sign * DigitsValue(SubSeq(u, 1, n), 0))

\* Number.parseInt(str, 10): leading white space is skipped, one sign is read,
\* then the longest prefix of decimal digits; NaN when that prefix is empty.
ParseInt(str) ==
    LET t == TrimStart(str)
        signed == Len(t) > 0 /\ t[1] \in {"+", "-"}
        sign == IF Len(t) > 0 /\ t[1] = "-" THEN -1 ELSE 1
        u == IF signed THEN Tail(t) ELSE t
        n == DigitPrefixLen(u)
    IN  IF n = 0 THEN NaN ELSE Some(sign * DigitsValue(SubSeq(u, 1, n), 0))

isNaN(x) == x = NaN

\* The path segments requests arrive with.
IdStrings == { <<"1">>, <<" ", "2", "x">>, <<"a", "b", "c">>, <<"-">>, <<>> }


\* ------------------------------------------------------- request inputs
SeqsUpTo(S, n) == UNION {[1..k -> S] : k \in 0..n}

Range(f) == {f[x] : x \in DOMAIN f}

SeqToBag(q) == [x \in Range(q) |-> Cardinality({k \in DOMAIN q : q[k] = x})]

ItemInputs ==
    { [product_id |-> 1, quantity |-> 2, price_per_unit |-> 10, unit |-> "kg"],
      [product_id |-> 2, quantity |-> 1, price_per_unit |-> 5, unit |-> "t"] }

TruckIdInputs == {5}

DriverIdInputs == {9}

\* The header fields of a payload (orderData of PUT).
HeaderInputs ==
    { [customer_id |-> 1, destination_id |-> Some(3), total |-> 20,
       invoice_series |-> Some("A"), invoice_number |-> Some(7),
       invoice_n |-> Some(1)],
      [customer_id |-> 2, destination_id |-> Null, total |-> 5,
       invoice_series |-> Null, invoice_number |-> Null,
       invoice_n |-> Null] }

\* validation.data: what orderUpdateSchema.safeParse yields for a valid body.
Payloads ==
    { [customer_id |-> h.customer_id, destination_id |-> h.destination_id,
       total |-> h.total, invoice_series |-> h.invoice_series,
       invoice_number |-> h.invoice_number, invoice_n |-> h.invoice_n,
       items |-> its, truck_ids |-> ts, driver_ids |-> ds] :
        h \in HeaderInputs, its \in SeqsUpTo(ItemInputs, MaxItems),
        ts \in SeqsUpTo(TruckIdInputs, MaxLinks),
        ds \in SeqsUpTo(DriverIdInputs, MaxLinks) }

NoData == [customer_id |-> 0]

\* A request body: text that is not JSON, JSON the schema rejects, or a
\* JSON document the schema accepts (with the data it parses to).
Bodies ==
    { [kind |-> "malformed", data |-> NoData],
      [kind |-> "invalid", data |-> NoData] }
    \cup { [kind |-> "valid", data |-> p] : p \in Payloads }

NoBody == [kind |-> "none", data |-> NoData]

\* request.json() throws on a body that is not JSON.
RequestJsonThrows(b) == b.kind = "malformed"

\* orderUpdateSchema.safeParse(body).success
SafeParseSuccess(b) == b.kind = "valid"

\* ------------------------------------------------------------ master data
VW_APP_CLIENTES == {1, 2}
VW_APP_PRODUCTOS == {1, 2}
APP_CAMIONES == {5, 6}
APP_CHOFERES == {8, 9}
FACTURASVENTA == { [NUMSERIE |-> "A", NUMFACTURA |-> 7, N |-> 1] }

\* GETDATE(): the time of the statement, abstracted to one token.
GETDATE == "now"

\* The invoice fields the order row may start with.
InitialInvoices ==
    { [invoice_series |-> Some("A"), invoice_number |-> Some(0)],
      [invoice_series |-> Some(""), invoice_number |-> Some(7)],
      [invoice_series |-> Null, invoice_number |-> Some(7)] }

\* ------------------------------------------------------------------ state
VARIABLES
    APP_PEDIDOS,            \* order id -> header row
    APP_PEDIDOS_ITEMS,      \* set of item rows (id is the identity column)
    APP_PEDIDOS_CAMIONES,   \* bag of (pedido_id, camion_id) link rows
    APP_PEDIDOS_CHOFERES,   \* bag of (pedido_id, chofer_id) link rows
    nextItemId,             \* next value of the items identity column
    req,                    \* slot -> the request it runs and its locals
    started,                \* number of requests received so far
    lastPut                 \* history: the last answered request, if a 200 PUT

vars == <<APP_PEDIDOS, APP_PEDIDOS_ITEMS, APP_PEDIDOS_CAMIONES,
          APP_PEDIDOS_CHOFERES, nextItemId, req, started, lastPut>>

db == <<APP_PEDIDOS, APP_PEDIDOS_ITEMS, APP_PEDIDOS_CAMIONES,
        APP_PEDIDOS_CHOFERES, nextItemId>>

NoResponse == [status |-> 0, kind |-> "none"]

IdleRequest ==
    [pc |-> "idle", op |-> "none", params |-> <<>>, body |-> NoBody,
     id |-> NaN, data |-> NoData, i |-> 0,
     order |-> Null, itemsResult |-> {}, trucksResult |-> EmptyBag,
     issued |-> <<>>, tags |-> <<>>, response |-> NoResponse]

\* The orders that exist, and the rows they start with: the endpoint creates none.
ExistingOrders == {1}

InitialOrders ==
    { [customer_id |-> 1, destination_id |-> Null, total |-> 0,
       invoice_series |-> inv.invoice_series,
       invoice_number |-> inv.invoice_number,
       invoice_n |-> Some(1), updated_at |-> "t0"] : inv \in InitialInvoices }

InitialItems ==
    { [id |-> o, order_id |-> o, product_id |-> 2, quantity |-> 3,
       price_per_unit |-> 4, unit |-> "m3"] : o \in ExistingOrders }

InitialTrucks == SetToBag({[pedido_id |-> o, camion_id |-> 6] : o \in ExistingOrders})

InitialDrivers == SetToBag({[pedido_id |-> o, chofer_id |-> 8] : o \in ExistingOrders})

Init ==
    /\ APP_PEDIDOS \in [ExistingOrders -> InitialOrders]
    /\ APP_PEDIDOS_ITEMS = InitialItems
    /\ APP_PEDIDOS_CAMIONES = InitialTrucks
    /\ APP_PEDIDOS_CHOFERES = InitialDrivers
    /\ nextItemId = Cardinality(InitialItems) + 1
    /\ req = [s \in Slots |-> IdleRequest]
    /\ started = 0
    /\ lastPut = Null

\* ------------------------------------------------- views of the database
ItemContent(r) ==
    [product_id |-> r.product_id, quantity |-> r.quantity,
     price_per_unit |-> r.price_per_unit, unit |-> r.unit]

ItemRowsOf(o) == {r \in APP_PEDIDOS_ITEMS : r.order_id = o}

\* The item rows of order o without their identity values, as a bag.
ItemContentsOf(o) ==
    [c \in {ItemContent(r) : r \in ItemRowsOf(o)} |->
        Cardinality({r \in ItemRowsOf(o) : ItemContent(r) = c})]

TruckIdsOf(o) ==
    LET rows == {r \in DOMAIN APP_PEDIDOS_CAMIONES : r.pedido_id = o}
    IN  [t \in {r.camion_id : r \in rows} |->
            APP_PEDIDOS_CAMIONES[[pedido_id |-> o, camion_id |-> t]]]

DriverIdsOf(o) ==
    LET rows == {r \in DOMAIN APP_PEDIDOS_CHOFERES : r.pedido_id = o}
    IN  [d \in {r.chofer_id : r \in rows} |->
            APP_PEDIDOS_CHOFERES[[pedido_id |-> o, chofer_id |-> d]]]

ChildrenOf(o) ==
    [items |-> ItemContentsOf(o), trucks |-> TruckIdsOf(o),
     drivers |-> DriverIdsOf(o)]

PayloadChildren(p) ==
    [items |-> SeqToBag(p.items), trucks |-> SeqToBag(p.truck_ids),
     drivers |-> SeqToBag(p.driver_ids)]


\* -------------------------------------------------------------- responses
TextResponse(status, text) == [status |-> status, kind |-> "text", text |-> text]

\* What a handler leaves behind when it returns: its locals are gone.
Returned(r, response) ==
    [r EXCEPT !.pc = "done", !.i = 0, !.order = Null, !.itemsResult = {},
              !.trucksResult = EmptyBag, !.response = response]

Receive(op, params, body) ==
    [IdleRequest EXCEPT !.op = op, !.params = params, !.body = body]

Free(s) == req[s].pc \in {"idle", "done"}

\* A request is taken by the first free slot.
CanReceive(s) ==
    /\ Free(s)
    /\ \A t \in Slots : t < s => ~Free(t)
    /\ started < MaxReqs

\* ------------------------------------------------------------------- GET
\* The header query: APP_PEDIDOS joined with the client (inner join) and
\* with FACTURASVENTA (left join on series, number and n).
OrderResult(o) ==
    IF o \in DOMAIN APP_PEDIDOS /\ APP_PEDIDOS[o].customer_id \in VW_APP_CLIENTES
    THEN LET p == APP_PEDIDOS[o]
             fs == {f \in FACTURASVENTA :
                      /\ p.invoice_series = Some(f.NUMSERIE)
                      /\ p.invoice_number = Some(f.NUMFACTURA)
                      /\ p.invoice_n = Some(f.N)}
             base == [id |-> o, customer_id |-> p.customer_id,
                      destination_id |-> p.destination_id,
                      invoice_series |-> p.invoice_series,
                      invoice_number |-> p.invoice_number,
                      invoice_n |-> p.invoice_n]
         IN  IF fs = {}
             THEN {base @@ [serie |-> Null, folio |-> Null]}
             ELSE {base @@ [serie |-> Some(f.NUMSERIE),
                            folio |-> Some(f.NUMFACTURA)] : f \in fs}
    ELSE {}

\* JavaScript truthiness of a nullable string and of a nullable number.
TruthyString(v) == v # Null /\ v[1] # ""
TruthyNumber(v) == v # Null /\ v[1] # 0

\* order.invoice_series && order.invoice_number ? {...} : null
Invoice(order) ==
    IF TruthyString(order.invoice_series) /\ TruthyNumber(order.invoice_number)
    THEN Some([serie |-> order.invoice_series[1],
               folio |-> order.invoice_number[1],
               n |-> order.invoice_n])
    ELSE Null

\* Number(x) of a decimal column the driver returns as a number.
Number(x) == x

PopulatedOrder(order, itemsResult, trucksResult, driversResult) ==
    [status |-> 200, kind |-> "order", order |-> order,
     client |-> [id |-> order.customer_id],
     invoice |-> Invoice(order),
     items |-> {[id |-> it.id, quantity |-> Number(it.quantity),
                 price_per_unit |-> Number(it.price_per_unit),
                 unit |-> it.unit, product |-> [id |-> it.product_id]] :
                   it \in itemsResult},
     trucks |-> trucksResult, drivers |-> driversResult]

GetBegin(s) ==
    /\ CanReceive(s)
    /\ \E params \in IdStrings :
         LET id == ParseInt(params)
             r == Receive("GET", params, NoBody)
         IN  IF isNaN(id)
             THEN /\ req' = [req EXCEPT ![s] =
                        Returned(r, TextResponse(400, "ID de pedido invalido"))]
                  /\ lastPut' = Null
             ELSE /\ req' = [req EXCEPT ![s] =
                        [r EXCEPT !.pc = "selectOrder", !.id = id]]
                  /\ UNCHANGED lastPut
    /\ started' = started + 1
    /\ UNCHANGED db

\* Faulty variant of GetSelectOrder: the items query is sent together with the header
\* query, before the header row is looked at.
GetSelectOrderEager(s) ==
    /\ req[s].op = "GET" /\ req[s].pc = "selectOrder"
    /\ LET r == [req[s] EXCEPT
                   !.issued = @ \o <<"selectOrder", "selectItems">>,
                   !.itemsResult =
                       {it \in ItemRowsOf(req[s].id[1]) :
                           it.product_id \in VW_APP_PRODUCTOS}]
           orderResult == OrderResult(r.id[1])
       IN  IF orderResult = {}
           THEN /\ req' = [req EXCEPT ![s] =
                      Returned(r, TextResponse(404, "Pedido no encontrado"))]
                /\ lastPut' = Null
           ELSE /\ \E order \in orderResult :
                      req' = [req EXCEPT ![s] =
                          [r EXCEPT !.pc = "selectTrucks", !.order = Some(order)]]
                /\ UNCHANGED lastPut
    /\ UNCHANGED <<db, started>>

GetSelectOrder(s) ==
    /\ req[s].op = "GET" /\ req[s].pc = "selectOrder"
    /\ LET r == [req[s] EXCEPT !.issued = Append(@, "selectOrder")]
           orderResult == OrderResult(r.id[1])
       IN  IF orderResult = {}
           THEN /\ req' = [req EXCEPT ![s] =
                      Returned(r, TextResponse(404, "Pedido no encontrado"))]
                /\ lastPut' = Null
           ELSE /\ \E order \in orderResult :
                      req' = [req EXCEPT ![s] =
                          [r EXCEPT !.pc = "selectItems", !.order = Some(order)]]
                /\ UNCHANGED lastPut
    /\ UNCHANGED <<db, started>>

GetSelectItems(s) ==
    /\ req[s].op = "GET" /\ req[s].pc = "selectItems"
    /\ req' = [req EXCEPT ![s] =
          [@ EXCEPT !.pc = "selectTrucks",
                    !.issued = Append(@, "selectItems"),
                    !.itemsResult =
                        {it \in ItemRowsOf(req[s].id[1]) :
                            it.product_id \in VW_APP_PRODUCTOS}]]
    /\ UNCHANGED <<db, started, lastPut>>

GetSelectTrucks(s) ==
    /\ req[s].op = "GET" /\ req[s].pc = "selectTrucks"
    /\ req' = [req EXCEPT ![s] =
          [@ EXCEPT !.pc = "selectDrivers",
                    !.issued = Append(@, "selectTrucks"),
                    !.trucksResult =
                        LET all == TruckIdsOf(req[s].id[1])
                        IN  [t \in DOMAIN all \cap APP_CAMIONES |-> all[t]]]]
    /\ UNCHANGED <<db, started, lastPut>>

GetSelectDrivers(s) ==
    /\ req[s].op = "GET" /\ req[s].pc = "selectDrivers"
    /\ LET r == [req[s] EXCEPT !.issued = Append(@, "selectDrivers")]
           all == DriverIdsOf(r.id[1])
           driversResult == [d \in DOMAIN all \cap APP_CHOFERES |-> all[d]]
       IN  req' = [req EXCEPT ![s] =
               Returned(r, PopulatedOrder(r.order[1], r.itemsResult,
                                          r.trucksResult, driversResult))]
    /\ lastPut' = Null
    /\ UNCHANGED <<db, started>>

GetQueries == {"selectOrder", "selectItems", "selectTrucks", "selectDrivers"}

\* An executeQuery of GET throws: the catch block answers 500.
GetCatch(s) ==
    /\ req[s].op = "GET" /\ req[s].pc \in GetQueries
    /\ req' = [req EXCEPT ![s] =
          Returned([@ EXCEPT !.issued = Append(@, req[s].pc)],
                   TextResponse(500, "Error interno del servidor"))]
    /\ lastPut' = Null
    /\ UNCHANGED <<db, started>>


\* ------------------------------------------------------------------- PUT
\* Faulty variant of AfterItems: the loop stops one item short.
AfterItemsOneShort(r) ==
    IF r.i + 1 < Len(r.data.items) THEN "insertItem" ELSE "deleteTrucks"

\* The statement that follows the one at pc, given the loop index i reached.
AfterItems(r) ==
    IF r.i < Len(r.data.items) THEN "insertItem" ELSE "deleteTrucks"

AfterTrucks(r) ==
    IF r.i < Len(r.data.truck_ids) THEN "insertTruck" ELSE "deleteDrivers"

AfterDrivers(r) ==
    IF r.i < Len(r.data.driver_ids) THEN "insertDriver" ELSE "revalidate"

PutBegin(s) ==
    /\ CanReceive(s)
    /\ \E params \in IdStrings :
         LET id == ParseInt(params)
             unread == Receive("PUT", params, NoBody)
         IN  IF isNaN(id)
             THEN /\ req' = [req EXCEPT ![s] =
                        Returned(unread,
                                 TextResponse(400, "ID de pedido invalido"))]
                  /\ lastPut' = Null
             ELSE \E body \in Bodies :
                    LET r == [Receive("PUT", params, body) EXCEPT !.id = id]
                    IN  IF RequestJsonThrows(body)
                        THEN /\ req' = [req EXCEPT ![s] =
                                   Returned([unread EXCEPT !.id = id],
                                            TextResponse(500,
                                                "Error interno del servidor"))]
                             /\ lastPut' = Null
                        ELSE IF ~SafeParseSuccess(body)
                        THEN /\ req' = [req EXCEPT ![s] =
                                   Returned(r, [status |-> 400,
                                                kind |-> "errors"])]
                             /\ lastPut' = Null
                        ELSE /\ req' = [req EXCEPT ![s] =
                                   [r EXCEPT !.pc = "updateOrder",
                                             !.data = body.data]]
                             /\ UNCHANGED lastPut
    /\ started' = started + 1
    /\ UNCHANGED db

\* Faulty variant of UpdateOrder: an upsert, which inserts the row when none matches.
UpdateOrderUpsert(o, d) ==
    [x \in DOMAIN APP_PEDIDOS \cup {o} |->
        IF x = o
        THEN [customer_id |-> d.customer_id,
              destination_id |-> d.destination_id,
              total |-> d.total,
              invoice_series |-> d.invoice_series,
              invoice_number |-> d.invoice_number,
              invoice_n |-> d.invoice_n,
              updated_at |-> GETDATE]
        ELSE APP_PEDIDOS[x]]

\* UPDATE RIP.APP_PEDIDOS SET ... WHERE id = @id
UpdateOrder(o, d) ==
    IF o \in DOMAIN APP_PEDIDOS
    THEN [APP_PEDIDOS EXCEPT ![o] =
            [customer_id |-> d.customer_id,
             destination_id |-> d.destination_id,
             total |-> d.total,
             invoice_series |-> d.invoice_series,
             invoice_number |-> d.invoice_number,
             invoice_n |-> d.invoice_n,
             updated_at |-> GETDATE]]
    ELSE APP_PEDIDOS

PutUpdateOrder(s) ==
    /\ req[s].op = "PUT" /\ req[s].pc = "updateOrder"
    /\ APP_PEDIDOS' = UpdateOrder(req[s].id[1], req[s].data)
    /\ req' = [req EXCEPT ![s] =
          [@ EXCEPT !.pc = "deleteItems", !.issued = Append(@, "updateOrder")]]
    /\ UNCHANGED <<APP_PEDIDOS_ITEMS, APP_PEDIDOS_CAMIONES,
                   APP_PEDIDOS_CHOFERES, nextItemId, started, lastPut>>

\* Faulty variant of DeleteItems: the WHERE clause matches the row id, not the order.
DeleteItemsByRowId(o) == {r \in APP_PEDIDOS_ITEMS : r.id # o}

\* DELETE FROM RIP.APP_PEDIDOS_ITEMS WHERE order_id = @id
DeleteItems(o) == {r \in APP_PEDIDOS_ITEMS : r.order_id # o}

PutDeleteItems(s) ==
    /\ req[s].op = "PUT" /\ req[s].pc = "deleteItems"
    /\ APP_PEDIDOS_ITEMS' = DeleteItems(req[s].id[1])
    /\ req' = [req EXCEPT ![s] =
          [@ EXCEPT !.pc = AfterItems([req[s] EXCEPT !.i = 0]), !.i = 0,
                    !.issued = Append(@, "deleteItems")]]
    /\ UNCHANGED <<APP_PEDIDOS, APP_PEDIDOS_CAMIONES, APP_PEDIDOS_CHOFERES,
                   nextItemId, started, lastPut>>

\* INSERT INTO RIP.APP_PEDIDOS_ITEMS (order_id, product_id, quantity,
\* price_per_unit, unit) VALUES (...): the identity column takes the next value.
InsertItem(o, item) ==
    APP_PEDIDOS_ITEMS \cup
        { [id |-> nextItemId, order_id |-> o, product_id |-> item.product_id,
           quantity |-> item.quantity, price_per_unit |-> item.price_per_unit,
           unit |-> item.unit] }

PutInsertItem(s) ==
    /\ req[s].op = "PUT" /\ req[s].pc = "insertItem"
    /\ APP_PEDIDOS_ITEMS' =
          InsertItem(req[s].id[1], req[s].data.items[req[s].i + 1])
    /\ nextItemId' = nextItemId + 1
    /\ req' = [req EXCEPT ![s] =
          [@ EXCEPT !.pc = AfterItems([req[s] EXCEPT !.i = @ + 1]),
                    !.i = @ + 1, !.issued = Append(@, "insertItem")]]
    /\ UNCHANGED <<APP_PEDIDOS, APP_PEDIDOS_CAMIONES, APP_PEDIDOS_CHOFERES,
                   started, lastPut>>

\* DELETE FROM RIP.APP_PEDIDOS_CAMIONES WHERE pedido_id = @id
DeleteTrucks(o) ==
    [r \in {x \in DOMAIN APP_PEDIDOS_CAMIONES : x.pedido_id # o} |->
        APP_PEDIDOS_CAMIONES[r]]

PutDeleteTrucks(s) ==
    /\ req[s].op = "PUT" /\ req[s].pc = "deleteTrucks"
    /\ APP_PEDIDOS_CAMIONES' = DeleteTrucks(req[s].id[1])
    /\ req' = [req EXCEPT ![s] =
          [@ EXCEPT !.pc = AfterTrucks([req[s] EXCEPT !.i = 0]), !.i = 0,
                    !.issued = Append(@, "deleteTrucks")]]
    /\ UNCHANGED <<APP_PEDIDOS, APP_PEDIDOS_ITEMS, APP_PEDIDOS_CHOFERES,
                   nextItemId, started, lastPut>>

\* INSERT INTO RIP.APP_PEDIDOS_CAMIONES (pedido_id, camion_id) VALUES (...)
InsertTruck(o, truckId) ==
    APP_PEDIDOS_CAMIONES (+) SetToBag({[pedido_id |-> o, camion_id |-> truckId]})

PutInsertTruck(s) ==
    /\ req[s].op = "PUT" /\ req[s].pc = "insertTruck"
    /\ APP_PEDIDOS_CAMIONES' =
          InsertTruck(req[s].id[1], req[s].data.truck_ids[req[s].i + 1])
    /\ req' = [req EXCEPT ![s] =
          [@ EXCEPT !.pc = AfterTrucks([req[s] EXCEPT !.i = @ + 1]),
                    !.i = @ + 1, !.issued = Append(@, "insertTruck")]]
    /\ UNCHANGED <<APP_PEDIDOS, APP_PEDIDOS_ITEMS, APP_PEDIDOS_CHOFERES,
                   nextItemId, started, lastPut>>

\* DELETE FROM RIP.APP_PEDIDOS_CHOFERES WHERE pedido_id = @id
DeleteDrivers(o) ==
    [r \in {x \in DOMAIN APP_PEDIDOS_CHOFERES : x.pedido_id # o} |->
        APP_PEDIDOS_CHOFERES[r]]

PutDeleteDrivers(s) ==
    /\ req[s].op = "PUT" /\ req[s].pc = "deleteDrivers"
    /\ APP_PEDIDOS_CHOFERES' = DeleteDrivers(req[s].id[1])
    /\ req' = [req EXCEPT ![s] =
          [@ EXCEPT !.pc = AfterDrivers([req[s] EXCEPT !.i = 0]), !.i = 0,
                    !.issued = Append(@, "deleteDrivers")]]
    /\ UNCHANGED <<APP_PEDIDOS, APP_PEDIDOS_ITEMS, APP_PEDIDOS_CAMIONES,
                   nextItemId, started, lastPut>>

\* INSERT INTO RIP.APP_PEDIDOS_CHOFERES (pedido_id, chofer_id) VALUES (...)
InsertDriver(o, driverId) ==
    APP_PEDIDOS_CHOFERES (+) SetToBag({[pedido_id |-> o, chofer_id |-> driverId]})

PutInsertDriver(s) ==
    /\ req[s].op = "PUT" /\ req[s].pc = "insertDriver"
    /\ APP_PEDIDOS_CHOFERES' =
          InsertDriver(req[s].id[1], req[s].data.driver_ids[req[s].i + 1])
    /\ req' = [req EXCEPT ![s] =
          [@ EXCEPT !.pc = AfterDrivers([req[s] EXCEPT !.i = @ + 1]),
                    !.i = @ + 1, !.issued = Append(@, "insertDriver")]]
    /\ UNCHANGED <<APP_PEDIDOS, APP_PEDIDOS_ITEMS, APP_PEDIDOS_CAMIONES,
                   nextItemId, started, lastPut>>

\* revalidateTag("orders"); revalidateTag(`order-${id}`)
RevalidateTags(o) ==
    << [tag |-> "orders", id |-> Null], [tag |-> "order-", id |-> Some(o)] >>

\* history: the PUT just answered 200 and the children it leaves its order.
Answered(r) ==
    Some([id |-> r.id[1], data |-> r.data, children |-> ChildrenOf(r.id[1])])

PutRevalidate(s) ==
    /\ req[s].op = "PUT" /\ req[s].pc = "revalidate"
    /\ req' = [req EXCEPT ![s] =
          Returned([@ EXCEPT !.tags = RevalidateTags(req[s].id[1])],
                   [status |-> 200, kind |-> "updated", id |-> req[s].id[1]])]
    /\ lastPut' = Answered(req[s])
    /\ UNCHANGED <<db, started>>

PutStatements ==
    {"updateOrder", "deleteItems", "insertItem", "deleteTrucks", "insertTruck",
     "deleteDrivers", "insertDriver"}

\* Faulty variant of PutCatch: the catch block compensates by removing the order's items.
PutCatchCompensating(s) ==
    /\ req[s].op = "PUT" /\ req[s].pc \in PutStatements
    /\ req' = [req EXCEPT ![s] =
          Returned([@ EXCEPT !.issued = Append(@, req[s].pc)],
                   TextResponse(500, "Error interno del servidor"))]
    /\ APP_PEDIDOS_ITEMS' = {r \in APP_PEDIDOS_ITEMS : r.order_id # req[s].id[1]}
    /\ lastPut' = Null
    /\ UNCHANGED <<APP_PEDIDOS, APP_PEDIDOS_CAMIONES, APP_PEDIDOS_CHOFERES,
                   nextItemId, started>>

\* An executeQuery of PUT throws: the statement has no effect, the catch
\* block answers 500 and nothing is undone.
PutCatch(s) ==
    /\ req[s].op = "PUT" /\ req[s].pc \in PutStatements
    /\ req' = [req EXCEPT ![s] =
          Returned([@ EXCEPT !.issued = Append(@, req[s].pc)],
                   TextResponse(500, "Error interno del servidor"))]
    /\ lastPut' = Null
    /\ UNCHANGED <<db, started>>

\* ------------------------------------------------------ specifications
Step(s) ==
    \/ GetBegin(s)
    \/ GetSelectOrder(s)
    \/ GetSelectItems(s)
    \/ GetSelectTrucks(s)
    \/ GetSelectDrivers(s)
    \/ GetCatch(s)
    \/ PutBegin(s)
    \/ PutUpdateOrder(s)
    \/ PutDeleteItems(s)
    \/ PutInsertItem(s)
    \/ PutDeleteTrucks(s)
    \/ PutInsertTruck(s)
    \/ PutDeleteDrivers(s)
    \/ PutInsertDriver(s)
    \/ PutRevalidate(s)
    \/ PutCatch(s)

Next == \E s \in Slots : Step(s)

\* Requests overlap: their statements interleave.
Spec == Init /\ [][Next]_vars

Quiet(s) == \A t \in Slots \ {s} : Free(t)

NextSeq == \E s \in Slots : Quiet(s) /\ Step(s)

\* Requests arrive one after another: none starts before the last has returned.
SpecSeq == Init /\ [][NextSeq]_vars


\* ---------------------------------------------------------------- claims
Succeeded200(r) == r.op = "PUT" /\ r.pc = "done" /\ r.response.status = 200

\* The header row a payload's UPDATE leaves.
HeaderFrom(d) ==
    [customer_id |-> d.customer_id, destination_id |-> d.destination_id,
     total |-> d.total, invoice_series |-> d.invoice_series,
     invoice_number |-> d.invoice_number, invoice_n |-> d.invoice_n,
     updated_at |-> "now"]

\* The rows of order o are those of payload d: header and all three collections.
StateOf(o, d) ==
    /\ ChildrenOf(o) = PayloadChildren(d)
    /\ o \in DOMAIN APP_PEDIDOS => APP_PEDIDOS[o] = HeaderFrom(d)

\* The children order o starts with.
InitialChildrenOf(o) ==
    [items |-> SeqToBag([k \in 1..Cardinality({r \in InitialItems : r.order_id = o})
                            |-> [product_id |-> 2, quantity |-> 3,
                                 price_per_unit |-> 4, unit |-> "m3"]]),
     trucks |-> IF o \in ExistingOrders THEN 6 :> 1 ELSE EmptyBag,
     drivers |-> IF o \in ExistingOrders THEN 8 :> 1 ELSE EmptyBag]

Repeat(n, x) == [k \in 1..n |-> x]

\* The statements a PUT of payload d issues, in order.
ExpectedStatements(d) ==
    <<"updateOrder", "deleteItems">> \o Repeat(Len(d.items), "insertItem")
    \o <<"deleteTrucks">> \o Repeat(Len(d.truck_ids), "insertTruck")
    \o <<"deleteDrivers">> \o Repeat(Len(d.driver_ids), "insertDriver")

IsPrefix(p, q) == Len(p) <= Len(q) /\ p = SubSeq(q, 1, Len(p))

Count(q, x) == Cardinality({k \in DOMAIN q : q[k] = x})

\* A path segment Number.parseInt reads an integer from: optional white
\* space, an optional sign, then at least one decimal digit.
HasIntegerPrefix(str) ==
    \E k \in 0..Len(str) :
        /\ \A j \in 1..k : str[j] \in WhiteSpace
        /\ \/ k + 1 <= Len(str) /\ str[k + 1] \in DigitChars
           \/ /\ k + 2 <= Len(str)
              /\ str[k + 1] \in {"+", "-"}
              /\ str[k + 2] \in DigitChars

\* C1: whenever a PUT answers 200, the children of its order are at that
\* moment exactly the submitted items, truck_ids and driver_ids (as bags of
\* contents): nothing older survives.
C1_ChildrenEqualPayload ==
    lastPut # Null => lastPut[1].children = PayloadChildren(lastPut[1].data)

\* C2: a PUT that has ended, whether it answered 200 or a statement of it
\* failed, leaves its order either with all four phases applied or with none:
\* stated for the first request the server receives, whose order still has
\* its initial rows when the PUT starts.
C2_AllOrNothing ==
    \A s \in Slots :
        (/\ req[s].op = "PUT" /\ req[s].pc = "done"
         /\ req[s].issued # <<>> /\ started = 1)
        => LET o == req[s].id[1]
           IN  \/ StateOf(o, req[s].data)
               \/ /\ ChildrenOf(o) = InitialChildrenOf(o)
                  /\ o \in DOMAIN APP_PEDIDOS => APP_PEDIDOS[o] \in InitialOrders

\* C3: a request whose path id holds no integer is answered 400 (text), and
\* a PUT whose body fails the schema is answered 400 with the error list; in
\* both cases the request has issued no statement and no cache tag.
C3_InputErrorsFailFast ==
    \A s \in Slots :
        req[s].pc = "done" =>
            /\ ~HasIntegerPrefix(req[s].params) =>
                  /\ req[s].response = [status |-> 400, kind |-> "text",
                                        text |-> "ID de pedido invalido"]
                  /\ req[s].issued = <<>> /\ req[s].tags = <<>>
            /\ (/\ req[s].op = "PUT" /\ HasIntegerPrefix(req[s].params)
                /\ req[s].body.kind = "invalid")
               => /\ req[s].response = [status |-> 400, kind |-> "errors"]
                  /\ req[s].issued = <<>> /\ req[s].tags = <<>>

C3_Witness ==
    \E s \in Slots :
        /\ req[s].op = "PUT" /\ req[s].pc = "done"
        /\ HasIntegerPrefix(req[s].params) /\ req[s].body.kind = "invalid"
        /\ req[s].response.status = 400
        /\ started = 2 /\ APP_PEDIDOS_ITEMS = InitialItems

\* C4: a PUT one of whose statements failed answered 500, issued nothing
\* after the failing statement, emitted no tag, and (for the first request
\* received, whose order started with its initial rows) the database shows
\* exactly the statements that succeeded before the failure: nothing undone.
C4_FailureKeepsAppliedPhases ==
    \A s \in Slots :
        (/\ req[s].op = "PUT" /\ req[s].pc = "done"
         /\ req[s].issued # <<>> /\ req[s].response.status # 200)
        => LET r == req[s]
               o == r.id[1]
               d == r.data
               ok == SubSeq(r.issued, 1, Len(r.issued) - 1)
           IN  /\ r.response.status = 500
               /\ IsPrefix(r.issued, ExpectedStatements(d))
               /\ r.tags = <<>>
               /\ started = 1 =>
                    /\ o \in DOMAIN APP_PEDIDOS =>
                          IF Count(ok, "updateOrder") = 1
                          THEN APP_PEDIDOS[o] = HeaderFrom(d)
                          ELSE APP_PEDIDOS[o] \in InitialOrders
                    /\ ItemContentsOf(o) =
                          IF Count(ok, "deleteItems") = 1
                          THEN SeqToBag(SubSeq(d.items, 1, Count(ok, "insertItem")))
                          ELSE InitialChildrenOf(o).items
                    /\ TruckIdsOf(o) =
                          IF Count(ok, "deleteTrucks") = 1
                          THEN SeqToBag(SubSeq(d.truck_ids, 1,
                                               Count(ok, "insertTruck")))
                          ELSE InitialChildrenOf(o).trucks
                    /\ DriverIdsOf(o) =
                          IF Count(ok, "deleteDrivers") = 1
                          THEN SeqToBag(SubSeq(d.driver_ids, 1,
                                               Count(ok, "insertDriver")))
                          ELSE InitialChildrenOf(o).drivers

C4_Witness ==
    \E s \in Slots :
        /\ req[s].op = "PUT" /\ req[s].pc = "done"
        /\ req[s].response.status = 500 /\ started = 1
        /\ req[s].id = Some(1)
        /\ Count(req[s].issued, "insertItem") = 1
        /\ req[s].issued[Len(req[s].issued)] = "deleteTrucks"
        /\ ItemContentsOf(1) = SeqToBag(req[s].data.items)
        /\ TruckIdsOf(1) = 6 :> 1

\* C5: when the request answered just before a PUT was the same PUT (same
\* order, same payload, answered 200), the second PUT, once all its
\* statements are done, leaves the order the children the first one left.
C5_RepeatedPutSameChildren ==
    \A s \in Slots :
        (/\ req[s].op = "PUT" /\ req[s].pc = "revalidate"
         /\ lastPut # Null
         /\ lastPut[1].id = req[s].id[1] /\ lastPut[1].data = req[s].data)
        => ChildrenOf(req[s].id[1]) = lastPut[1].children

C5_Witness ==
    \E s \in Slots :
        /\ req[s].op = "PUT" /\ req[s].pc = "revalidate"
        /\ lastPut # Null
        /\ lastPut[1].id = req[s].id[1] /\ lastPut[1].data = req[s].data
        /\ Len(req[s].data.items) > 0 /\ Len(req[s].data.truck_ids) > 0
        /\ ChildrenOf(req[s].id[1]) = lastPut[1].children

ChildQueries == {"selectItems", "selectTrucks", "selectDrivers"}

\* C6: a GET whose header query returns no row ends in that step, answered
\* 404 (500 if the query threw), having issued the header query alone; a GET
\* is answered 404 only so; and a GET issues an items, trucks or drivers
\* query only when its header query came first and gave it a row.
C6_HeaderLookupFirst ==
    [][\A s \in Slots :
         (req[s].op = "GET" /\ req'[s] # req[s]) =>
            /\ (req[s].pc = "selectOrder" /\ OrderResult(req[s].id[1]) = {})
               => /\ req'[s].pc = "done"
                  /\ req'[s].response.status \in {404, 500}
                  /\ req'[s].issued = <<"selectOrder">>
            /\ (req'[s].op = "GET" /\ req'[s].response.status = 404)
               => /\ req[s].pc = "selectOrder"
                  /\ OrderResult(req[s].id[1]) = {}
                  /\ req'[s].issued = <<"selectOrder">>
            /\ (/\ req'[s].op = "GET"
                /\ Len(req'[s].issued) > Len(req[s].issued)
                /\ req'[s].issued[Len(req'[s].issued)] \in ChildQueries)
               => /\ req[s].order # Null
                  /\ req[s].issued[1] = "selectOrder"]_vars

C6_Witness ==
    \E s \in Slots :
        /\ req[s].op = "GET" /\ req[s].pc = "done"
        /\ req[s].response.status = 404
        /\ req[s].issued = <<"selectOrder">>

\* C7: a GET answered 200 carries an invoice exactly when invoice_series and
\* invoice_number of the header row it read are both non-null, and then
\* serie, folio and n are that row's invoice_series, invoice_number and
\* invoice_n.
C7_InvoiceIffBothNonNull ==
    \A s \in Slots :
        (req[s].op = "GET" /\ req[s].response.status = 200)
        => LET o == req[s].response.order
               inv == req[s].response.invoice
           IN  /\ inv # Null <=>
                    (o.invoice_series # Null /\ o.invoice_number # Null)
               /\ inv # Null =>
                    inv[1] = [serie |-> o.invoice_series[1],
                              folio |-> o.invoice_number[1],
                              n |-> o.invoice_n]

\* C8: the set of order header rows never changes, whatever is requested.
C8_NoOrderCreatedOrDeleted == DOMAIN APP_PEDIDOS = ExistingOrders

C8_Witness ==
    \E s \in Slots :
        /\ Succeeded200(req[s])
        /\ req[s].id[1] \notin ExistingOrders
        /\ ItemRowsOf(req[s].id[1]) # {}

\* C9: what a PUT has issued is always a prefix of header update, delete
\* items, one insert per item, delete trucks, one insert per truck, delete
\* drivers, one insert per driver; it emits the tags "orders" and
\* "order-<id>" exactly when it answers 200, and then has issued them all.
C9_StatementOrderAndTags ==
    \A s \in Slots :
        req[s].op = "PUT" =>
            /\ req[s].data = NoData => req[s].issued = <<>>
            /\ req[s].data # NoData =>
                  IsPrefix(req[s].issued, ExpectedStatements(req[s].data))
            /\ req[s].tags # <<>> =>
                  /\ req[s].issued = ExpectedStatements(req[s].data)
                  /\ req[s].response.status = 200
            /\ req[s].response.status = 200 =>
                  req[s].tags = << [tag |-> "orders", id |-> Null],
                                   [tag |-> "order-", id |-> req[s].id] >>
            /\ req[s].pc = "revalidate" =>
                  req[s].issued = ExpectedStatements(req[s].data)

C9_Witness ==
    \E s \in Slots :
        /\ Succeeded200(req[s])
        /\ Len(req[s].data.items) > 0
        /\ Len(req[s].data.truck_ids) > 0
        /\ Len(req[s].data.driver_ids) > 0
        /\ Len(req[s].tags) = 2
        /\ Len(req[s].issued) = 7

\* C10: when two PUTs on the same order with different payloads were in
\* flight together and both answered 200, the order's header row and its
\* three collections are those of one of the two payloads.
C10_OneWriterWins ==
    \A s, t \in Slots :
        (/\ s # t /\ Succeeded200(req[s]) /\ Succeeded200(req[t])
         /\ req[s].id = req[t].id /\ req[s].data # req[t].data)
        => \/ StateOf(req[s].id[1], req[s].data)
           \/ StateOf(req[s].id[1], req[t].data)

====
